---- MODULE Spec2Model ----
(***************************************************************************)
(* Model of the structural-pattern scripts of the repository:              *)
(*   src/structural/flyweight.py   FlyweightFactory and its cache          *)
(*   src/structural/adapter.py     Target / Adaptee / Adapter, client_code *)
(*   src/structural/composite.py   Loader / LoadNode / LoadCluster         *)
(*   src/structural/decorator.py   DataReporter and its decorators         *)
(* The scripts share no state; each has its own variables, its own         *)
(* next-state relation and its own specification.                          *)
(***************************************************************************)
EXTENDS Naturals, Sequences, FiniteSets, TLC

VARIABLES
    \* flyweight.py
    _flyweights,   \* FlyweightFactory._flyweights: the CLASS attribute, key -> object
    objects,       \* every Flyweight constructed so far; the index is the identity
    factories,     \* number of FlyweightFactory instances constructed
    requested,     \* history: the combinations seeded or requested so far
    handed,        \* history: (combination, object) for every get_flyweight result
    last,          \* the most recent factory operation and what it returned
    \* adapter.py
    aPc,           \* position in __main__ / client_code
    aTarget,       \* class of the object passed to client_code
    aGuarded,      \* whether the call stands inside the try block of __main__
    aData,         \* client_code's local `data`
    aExc,          \* the exception in flight, "none" if none
    aOut,          \* what the script has printed
    \* composite.py
    _children,     \* LoadCluster._children of each cluster
    _parent,       \* Loader._parent of each component ("unset" before any assignment)
    cStack,        \* the frames of the start_load / stop_load calls in progress
    cOp,           \* "start" or "stop": which of the two the running call is
    cRoot,         \* the component the outermost call was made on
    cStatus,       \* outcome of the most recent call
    cResult,       \* the text the outermost call returned, as its lines
    \* decorator.py
    classOf,       \* the class of each DataReporter object constructed, by identity
    _reporter,     \* BasicReporterDecorator._reporter of each object (0: it has none)
    _mqtt_client,  \* MQTTReporterDecorator._mqtt_client of each object
    dStack,        \* the frames of the report_data calls in progress
    dRoot,         \* the component client_code was called with
    dStatus,       \* "idle", "running" or "done"
    dResult        \* the text the outermost report_data returned, as its pieces

flyVars == <<_flyweights, objects, factories, requested, handed, last>>

adapterVars == <<aPc, aTarget, aGuarded, aData, aExc, aOut>>

compositeVars == <<_children, _parent, cStack, cOp, cRoot, cStatus, cResult>>

decoratorVars == <<classOf, _reporter, _mqtt_client, dStack, dRoot, dStatus, dResult>>

vars == <<flyVars, adapterVars, compositeVars, decoratorVars>>

(***************************************************************************)
(* flyweight.py                                                            *)
(***************************************************************************)

\* The strings used as state values. "a_b" contains the separator of get_key.
Values == {"a", "b", "a_b"}

MaxSetSize == 2
MaxSeeds == 2
MaxObjects == 3
MaxFactories == 2

\* A Python set reaches get_key through its iteration order. One set has
\* several iteration orders (the order depends on the hash seed and on the
\* insertion history of the set object), so a shared state is given as one of
\* its presentations: a sequence without repetition.
Presentations ==
    {p \in UNION {[1..n -> Values] : n \in 0..MaxSetSize} :
        \A i, j \in DOMAIN p : i # j => p[i] # p[j]}

\* The set a presentation presents.
ToSet(p) == {p[i] : i \in DOMAIN p}

SeedLists == UNION {[1..n -> Presentations] : n \in 0..MaxSeeds}

\* "_".join(state): the elements in iteration order, "_" between them.
RECURSIVE join(_)
join(p) ==
    IF Len(p) = 0 THEN ""
    ELSE IF Len(p) = 1 THEN p[1]
    ELSE p[1] \o "_" \o join(Tail(p))

\* FlyweightFactory.get_key
get_key(state) == join(state)

\* Flyweight(state): the dataclass instance holds the set passed to it.
Flyweight(state) == ToSet(state)

\* self._flyweights[key] = Flyweight(state), as (mapping, objects) of the result
Store(fl, objs, state) ==
    <<(get_key(state) :> (Len(objs) + 1)) @@ fl, Append(objs, Flyweight(state))>>

\* the loop of FlyweightFactory.__init__ over initial_flyweights
RECURSIVE SeedAll(_, _, _)
SeedAll(fl, objs, seeds) ==
    IF Len(seeds) = 0 THEN <<fl, objs>>
    ELSE LET s == Store(fl, objs, Head(seeds))
         IN SeedAll(s[1], s[2], Tail(seeds))

\* not self._flyweights.get(key): no entry (a stored Flyweight is always truthy)
Miss(key) == key \notin DOMAIN _flyweights

NoOp == [op |-> "none", factory |-> 0, args |-> <<>>, key |-> "", ret |-> 0, count |-> 0]

FlyInit ==
    /\ _flyweights = [k \in {} |-> 0]
    /\ objects = <<>>
    /\ factories = 0
    /\ requested = {}
    /\ handed = {}
    /\ last = NoOp

\* FlyweightFactory(initial_flyweights)
Construct(seeds) ==
    /\ factories < MaxFactories
    /\ Len(objects) + Len(seeds) <= MaxObjects
    /\ LET s == SeedAll(_flyweights, objects, seeds)
       IN /\ _flyweights' = s[1]
          /\ objects' = s[2]
    /\ factories' = factories + 1
    /\ requested' = requested \cup {ToSet(seeds[i]) : i \in DOMAIN seeds}
    /\ UNCHANGED handed
    /\ last' = [op |-> "init", factory |-> factories + 1, args |-> seeds,
                key |-> "", ret |-> 0, count |-> 0]

\* factory.get_flyweight(shared_state), on a miss
GetFlyweightMiss(f, shared_state) ==
    LET key == get_key(shared_state)
    IN /\ Miss(key)
       /\ Len(objects) < MaxObjects
       /\ LET s == Store(_flyweights, objects, shared_state)
          IN /\ _flyweights' = s[1]
             /\ objects' = s[2]
             /\ last' = [op |-> "get", factory |-> f, args |-> <<shared_state>>,
                         key |-> key, ret |-> s[1][key], count |-> 0]
       /\ requested' = requested \cup {ToSet(shared_state)}
       /\ handed' = handed \cup {<<ToSet(shared_state), Len(objects) + 1>>}
       /\ UNCHANGED factories

\* factory.get_flyweight(shared_state), on a hit
GetFlyweightHit(f, shared_state) ==
    LET key == get_key(shared_state)
    IN /\ ~Miss(key)
       /\ last' = [op |-> "get", factory |-> f, args |-> <<shared_state>>,
                   key |-> key, ret |-> _flyweights[key], count |-> 0]
       /\ requested' = requested \cup {ToSet(shared_state)}
       /\ handed' = handed \cup {<<ToSet(shared_state), _flyweights[key]>>}
       /\ UNCHANGED <<_flyweights, objects, factories>>

\* factory.list_flyweights(): reports len(self._flyweights)
ListFlyweights(f) ==
    /\ last' = [op |-> "list", factory |-> f, args |-> <<>>, key |-> "",
                ret |-> 0, count |-> Cardinality(DOMAIN _flyweights)]
    /\ UNCHANGED <<_flyweights, objects, factories, requested, handed>>

FlyNext ==
    \/ \E seeds \in SeedLists : Construct(seeds) /\ UNCHANGED <<adapterVars, compositeVars, decoratorVars>>
    \/ \E f \in 1..factories, p \in Presentations :
          GetFlyweightMiss(f, p) /\ UNCHANGED <<adapterVars, compositeVars, decoratorVars>>
    \/ \E f \in 1..factories, p \in Presentations :
          GetFlyweightHit(f, p) /\ UNCHANGED <<adapterVars, compositeVars, decoratorVars>>
    \/ \E f \in 1..factories : ListFlyweights(f) /\ UNCHANGED <<adapterVars, compositeVars, decoratorVars>>

(***************************************************************************)
(* adapter.py                                                              *)
(***************************************************************************)

MaxBlocks == 4

\* the methods each class body defines
Defines(cls) ==
    CASE cls = "Target"  -> {"request"}
      [] cls = "Adaptee" -> {"specific_request"}
      [] cls = "Adapter" -> {"request"}

\* method resolution order: class Adapter(Target, Adaptee)
MRO(cls) ==
    CASE cls = "Target"  -> <<"Target">>
      [] cls = "Adaptee" -> <<"Adaptee">>
      [] cls = "Adapter" -> <<"Adapter", "Target", "Adaptee">>

\* a lookup that ignores the base classes (what Lookup must not be)
LookupOwnClassOnly(cls, name) ==
    IF name \in Defines(cls) THEN cls ELSE "AttributeError"

\* attribute lookup on an instance of cls: the first class of the MRO that
\* defines the name, or AttributeError
Lookup(cls, name) ==
    LET hits == {i \in DOMAIN MRO(cls) : name \in Defines(MRO(cls)[i])}
    IN IF hits = {} THEN "AttributeError"
       ELSE MRO(cls)[CHOOSE i \in hits : \A j \in hits : i <= j]

NoData == [type |-> "none", root |-> "", field |-> "", text |-> ""]

\* Target.request: the literal dict
TargetRequest ==
    [type |-> "dict", root |-> "json_data", field |-> "some_critical_data",
     text |-> "very_much_business_value"]

\* Adaptee.specific_request: the literal XML byte string
SpecificRequest ==
    [type |-> "bytes", root |-> "xml_data", field |-> "some_critical_data",
     text |-> "very_much_business_value"]

\* xmltodict.parse: an XML document (bytes or str) to a dict keyed by its root
xmltodict_parse(v) == [v EXCEPT !.type = "dict"]

\* json.dumps: a dict to its JSON text
json_dumps(v) == [v EXCEPT !.type = "str"]

\* json.loads: the text of a JSON object to a dict
json_loads(v) == [v EXCEPT !.type = "dict"]

Ok(v) == [exc |-> "none", val |-> v]
Raise(e) == [exc |-> e, val |-> NoData]

\* Adapter.request on an instance of cls: self.specific_request() is itself
\* an attribute lookup
AdapterRequest(cls) ==
    IF Lookup(cls, "specific_request") = "AttributeError"
    THEN Raise("AttributeError")
    ELSE Ok(json_loads(json_dumps(xmltodict_parse(SpecificRequest))))

\* target.request() for an instance of cls
CallRequest(cls) ==
    LET owner == Lookup(cls, "request")
    IN CASE owner = "AttributeError" -> Raise("AttributeError")
         [] owner = "Target"  -> Ok(TargetRequest)
         [] owner = "Adapter" -> AdapterRequest(cls)

\* isinstance(data, dict)
IsDict(v) == v.type = "dict"

\* print(text): what a printed message adds to the output
Line(msg) == [type |-> "text", root |-> "", field |-> "", text |-> msg]

ExpectedMessage == Line("Adaptee doesn't have 'request' method")

AdapterInit ==
    /\ aPc = "main"
    /\ aTarget = "none"
    /\ aGuarded = FALSE
    /\ aData = NoData
    /\ aExc = "none"
    /\ aOut = <<>>

\* one block of __main__ up to the call of client_code: the header, the
\* object, and whether the call stands in the try
Block(header, cls, guarded) ==
    /\ aPc = "main"
    /\ Len(aOut) < 2 * MaxBlocks
    /\ aOut' = Append(aOut, Line(header))
    /\ aTarget' = cls
    /\ aGuarded' = guarded
    /\ aData' = NoData
    /\ aPc' = "request"
    /\ UNCHANGED aExc

MainTarget == Block("Client works fine with Target interface:", "Target", FALSE)

MainAdaptee == Block("Client could not work with Adaptee interface:", "Adaptee", TRUE)

MainAdapter ==
    Block("But client could work with Adaptee service using Adapter:", "Adapter", FALSE)

\* client_code: data = target.request()
ClientRequest ==
    /\ aPc = "request"
    /\ LET r == CallRequest(aTarget)
       IN /\ aExc' = r.exc
          /\ aData' = r.val
          /\ aPc' = IF r.exc = "none" THEN "assert" ELSE "raised"
    /\ UNCHANGED <<aTarget, aGuarded, aOut>>

\* client_code: assert isinstance(data, dict), then print(data)
ClientAssertPrint ==
    /\ aPc = "assert"
    /\ IF IsDict(aData)
       THEN /\ aOut' = Append(aOut, aData)
            /\ aPc' = "main"
            /\ UNCHANGED aExc
       ELSE /\ aExc' = "AssertionError"
            /\ aPc' = "raised"
            /\ UNCHANGED aOut
    /\ UNCHANGED <<aTarget, aGuarded, aData>>

\* the exception leaves client_code: `except AttributeError` of the try block
\* prints the message; anything else ends the script with a traceback
Except ==
    /\ aPc = "raised"
    /\ IF aGuarded /\ aExc = "AttributeError"
       THEN /\ aOut' = Append(aOut, ExpectedMessage)
            /\ aExc' = "none"
            /\ aPc' = "main"
       ELSE /\ aPc' = "crashed"
            /\ UNCHANGED <<aOut, aExc>>
    /\ UNCHANGED <<aTarget, aGuarded, aData>>

AdapterNext ==
    \/ MainTarget /\ UNCHANGED <<flyVars, compositeVars, decoratorVars>>
    \/ MainAdaptee /\ UNCHANGED <<flyVars, compositeVars, decoratorVars>>
    \/ MainAdapter /\ UNCHANGED <<flyVars, compositeVars, decoratorVars>>
    \/ ClientRequest /\ UNCHANGED <<flyVars, compositeVars, decoratorVars>>
    \/ ClientAssertPrint /\ UNCHANGED <<flyVars, compositeVars, decoratorVars>>
    \/ Except /\ UNCHANGED <<flyVars, compositeVars, decoratorVars>>

(***************************************************************************)
(* composite.py                                                            *)
(***************************************************************************)

\* the LoadCluster and LoadNode objects of a run, by name
Clusters == {"A", "B"}
Leaves == {"L"}
Components == Clusters \cup Leaves

MaxChildren == 2

\* Python's recursion limit (1000 frames by default), scaled to the model:
\* the deepest call chain of a structure without cycles over these components
\* is one frame per cluster and one for a leaf.
RecursionLimit == Cardinality(Clusters) + 1

\* LoadNode.start_load / stop_load: f"{self.name} started load.\n"
LeafText(name, op) == <<[name |-> name, kind |-> "node", op |-> op]>>

\* the first line of LoadCluster.start_load / stop_load
Header(name, op) == [name |-> name, kind |-> "cluster", op |-> op]

\* the header after the children's results (what ClusterText must not be)
ClusterTextHeaderLast(name, op, results) == results \o <<Header(name, op)>>

\* f"Cluster {self.name} started load:\n{''.join(results)}"
ClusterText(name, op, results) == <<Header(name, op)>> \o results

\* results = [] at the start of a cluster's call
Frame(node) == [node |-> node, idx |-> 1, results |-> <<>>]

\* list.remove(x): the list without the first occurrence of x
RECURSIVE ListRemove(_, _)
ListRemove(xs, x) ==
    IF Head(xs) = x THEN Tail(xs) ELSE <<Head(xs)>> \o ListRemove(Tail(xs), x)

Contains(xs, x) == \E i \in DOMAIN xs : xs[i] = x

CompositeInit ==
    /\ _children = [c \in Clusters |-> <<>>]
    /\ _parent = [c \in Components |-> "unset"]
    /\ cStack = <<>>
    /\ cOp = "none"
    /\ cRoot = "none"
    /\ cStatus = "idle"
    /\ cResult = <<>>

\* a new call from the client: the outcome of the previous one is gone
Idle ==
    /\ cStack' = <<>>
    /\ cOp' = "none"
    /\ cRoot' = "none"
    /\ cStatus' = "idle"
    /\ cResult' = <<>>

\* LoadCluster.add_node
AddNode(p, component) ==
    /\ cStatus # "running"
    /\ Len(_children[p]) < MaxChildren
    /\ _children' = [_children EXCEPT ![p] = Append(@, component)]
    /\ _parent' = [_parent EXCEPT ![component] = p]
    /\ Idle

\* LoadCluster.remove_node: list.remove raises ValueError before the parent is
\* touched when the component is not a child
RemoveNode(p, component) ==
    /\ cStatus # "running"
    /\ IF Contains(_children[p], component)
       THEN /\ _children' = [_children EXCEPT ![p] = ListRemove(@, component)]
            /\ _parent' = [_parent EXCEPT ![component] = "None"]
            /\ Idle
       ELSE /\ cStatus' = "ValueError"
            /\ cStack' = <<>>
            /\ cOp' = "none"
            /\ cRoot' = "none"
            /\ cResult' = <<>>
            /\ UNCHANGED <<_children, _parent>>

\* Loader.add_node / Loader.remove_node on a LoadNode: pass
LoaderAddRemoveNode(l, component) ==
    /\ cStatus # "running"
    /\ Idle
    /\ UNCHANGED <<_children, _parent>>

\* loader.start_load() / loader.stop_load() called by the client
CallLoad(op, root) ==
    /\ cStatus # "running"
    /\ cOp' = op
    /\ cRoot' = root
    /\ IF root \in Leaves
       THEN /\ cStack' = <<>>
            /\ cStatus' = "returned"
            /\ cResult' = LeafText(root, op)
       ELSE /\ cStack' = <<Frame(root)>>
            /\ cStatus' = "running"
            /\ cResult' = <<>>
    /\ UNCHANGED <<_children, _parent>>

\* one round of `for child in self._children: results.append(child.start_load())`
\* in the innermost running call: a leaf child returns its line at once, a
\* cluster child starts its own call; a call beyond the recursion limit raises
\* RecursionError, which nothing catches
VisitChild ==
    /\ cStatus = "running"
    /\ LET n == Len(cStack)
           top == cStack[n]
       IN /\ top.idx <= Len(_children[top.node])
          /\ LET child == _children[top.node][top.idx]
             IN IF n + 1 > RecursionLimit
                THEN /\ cStatus' = "RecursionError"
                     /\ cStack' = <<>>
                ELSE IF child \in Leaves
                THEN /\ cStack' = [cStack EXCEPT ![n] =
                            [@ EXCEPT !.idx = @ + 1,
                                      !.results = @ \o LeafText(child, cOp)]]
                     /\ UNCHANGED cStatus
                ELSE /\ cStack' = Append(cStack, Frame(child))
                     /\ UNCHANGED cStatus
    /\ UNCHANGED <<_children, _parent, cOp, cRoot, cResult>>

\* the loop of the innermost call is over: it returns its text to its caller
Return ==
    /\ cStatus = "running"
    /\ LET n == Len(cStack)
           top == cStack[n]
           text == ClusterText(top.node, cOp, top.results)
       IN /\ top.idx > Len(_children[top.node])
          /\ IF n = 1
             THEN /\ cStack' = <<>>
                  /\ cStatus' = "returned"
                  /\ cResult' = text
             ELSE /\ cStack' = [SubSeq(cStack, 1, n - 1) EXCEPT ![n - 1] =
                         [@ EXCEPT !.idx = @ + 1, !.results = @ \o text]]
                  /\ UNCHANGED <<cStatus, cResult>>
    /\ UNCHANGED <<_children, _parent, cOp, cRoot>>

CompositeNext ==
    \/ \E p \in Clusters, c \in Components :
          AddNode(p, c) /\ UNCHANGED <<flyVars, adapterVars, decoratorVars>>
    \/ \E p \in Clusters, c \in Components :
          RemoveNode(p, c) /\ UNCHANGED <<flyVars, adapterVars, decoratorVars>>
    \/ \E l \in Leaves, c \in Components :
          LoaderAddRemoveNode(l, c) /\ UNCHANGED <<flyVars, adapterVars, decoratorVars>>
    \/ \E op \in {"start", "stop"}, root \in Components :
          CallLoad(op, root) /\ UNCHANGED <<flyVars, adapterVars, decoratorVars>>
    \/ VisitChild /\ UNCHANGED <<flyVars, adapterVars, decoratorVars>>
    \/ Return /\ UNCHANGED <<flyVars, adapterVars, decoratorVars>>

(***************************************************************************)
(* decorator.py                                                            *)
(***************************************************************************)

MaxReporters == 3

Decorators ==
    {"BasicReporterDecorator", "ShadowReporterDecorator", "MQTTReporterDecorator"}

\* BasicSessionDataReporter.report_data
BaseText == <<"I'm reporting basic charging session data to device' shadow">>

\* what each decorator's report_data appends to the wrapped reporter's text
Suffix(cls) ==
    CASE cls = "ShadowReporterDecorator" -> <<" and added meter values to device' shadow">>
      [] cls = "MQTTReporterDecorator"   -> <<" and sent meter values to MQTT topic">>
      [] cls = "BasicReporterDecorator"  -> <<>>

\* f"{self.reporter.report_data()} and ..."
Decorated(cls, text) == text \o Suffix(cls)

\* MQTTReporterDecorator.setup_mqtt_client
setup_mqtt_client(clients, r) == [clients EXCEPT ![r] = "MQTT Client up"]

\* a teardown that leaves the client as it is (what teardown must not be)
teardown_forgotten(clients, r) == clients

\* MQTTReporterDecorator.teardown_mqtt_client
teardown_mqtt_client(clients, r) == [clients EXCEPT ![r] = "MQTT Client down"]

\* a call of report_data on object r that has just begun
DFrame(r) == [obj |-> r, pc |-> "start", got |-> <<>>]

\* the innermost call returns text: to its caller's frame, or to client_code
Deliver(rest, text) ==
    IF rest = <<>>
    THEN /\ dStack' = <<>>
         /\ dStatus' = "done"
         /\ dResult' = text
    ELSE /\ dStack' = [rest EXCEPT ![Len(rest)] = [@ EXCEPT !.pc = "resume", !.got = text]]
         /\ UNCHANGED <<dStatus, dResult>>

DecoratorInit ==
    /\ classOf = <<>>
    /\ _reporter = <<>>
    /\ _mqtt_client = <<>>
    /\ dStack = <<>>
    /\ dRoot = 0
    /\ dStatus = "idle"
    /\ dResult = <<>>

\* BasicSessionDataReporter()
NewBasic ==
    /\ dStatus # "running"
    /\ Len(classOf) < MaxReporters
    /\ classOf' = Append(classOf, "BasicSessionDataReporter")
    /\ _reporter' = Append(_reporter, 0)
    /\ _mqtt_client' = Append(_mqtt_client, "None")
    /\ UNCHANGED <<dStack, dRoot, dStatus, dResult>>

\* BasicReporterDecorator.__init__ through one of the decorator classes;
\* _mqtt_client is the class attribute's None until setup assigns it
NewDecorator(cls, reporter) ==
    /\ dStatus # "running"
    /\ Len(classOf) < MaxReporters
    /\ classOf' = Append(classOf, cls)
    /\ _reporter' = Append(_reporter, reporter)
    /\ _mqtt_client' = Append(_mqtt_client, "None")
    /\ UNCHANGED <<dStack, dRoot, dStatus, dResult>>

\* client_code(component): component.report_data() is called
ClientCode(component) ==
    /\ dStatus # "running"
    /\ dStack' = <<DFrame(component)>>
    /\ dRoot' = component
    /\ dStatus' = "running"
    /\ dResult' = <<>>
    /\ UNCHANGED <<classOf, _reporter, _mqtt_client>>

\* BasicSessionDataReporter.report_data
BasicReport ==
    /\ dStatus = "running"
    /\ LET n == Len(dStack)
       IN /\ classOf[dStack[n].obj] = "BasicSessionDataReporter"
          /\ Deliver(SubSeq(dStack, 1, n - 1), BaseText)
    /\ UNCHANGED <<classOf, _reporter, _mqtt_client, dRoot>>

\* MQTTReporterDecorator.report_data: self.setup_mqtt_client()
MQTTSetup ==
    /\ dStatus = "running"
    /\ LET n == Len(dStack)
           top == dStack[n]
       IN /\ classOf[top.obj] = "MQTTReporterDecorator"
          /\ top.pc = "start"
          /\ _mqtt_client' = setup_mqtt_client(_mqtt_client, top.obj)
          /\ dStack' = [dStack EXCEPT ![n] = [@ EXCEPT !.pc = "call"]]
    /\ UNCHANGED <<classOf, _reporter, dRoot, dStatus, dResult>>

\* a decorator's report_data calls the wrapped reporter's report_data
CallWrapped ==
    /\ dStatus = "running"
    /\ LET n == Len(dStack)
           top == dStack[n]
       IN /\ classOf[top.obj] \in Decorators
          /\ top.pc = IF classOf[top.obj] = "MQTTReporterDecorator" THEN "call" ELSE "start"
          /\ dStack' = Append([dStack EXCEPT ![n] = [@ EXCEPT !.pc = "wait"]],
                              DFrame(_reporter[top.obj]))
    /\ UNCHANGED <<classOf, _reporter, _mqtt_client, dRoot, dStatus, dResult>>

\* BasicReporterDecorator.report_data / ShadowReporterDecorator.report_data
\* return once the wrapped call has returned
DecoratorReturn ==
    /\ dStatus = "running"
    /\ LET n == Len(dStack)
           top == dStack[n]
       IN /\ classOf[top.obj] \in {"BasicReporterDecorator", "ShadowReporterDecorator"}
          /\ top.pc = "resume"
          /\ Deliver(SubSeq(dStack, 1, n - 1), Decorated(classOf[top.obj], top.got))
    /\ UNCHANGED <<classOf, _reporter, _mqtt_client, dRoot>>

\* MQTTReporterDecorator.report_data after the wrapped call: reported = ...,
\* self.teardown_mqtt_client(), return reported
MQTTTeardownReturn ==
    /\ dStatus = "running"
    /\ LET n == Len(dStack)
           top == dStack[n]
       IN /\ classOf[top.obj] = "MQTTReporterDecorator"
          /\ top.pc = "resume"
          /\ _mqtt_client' = teardown_mqtt_client(_mqtt_client, top.obj)
          /\ Deliver(SubSeq(dStack, 1, n - 1), Decorated(classOf[top.obj], top.got))
    /\ UNCHANGED <<classOf, _reporter, dRoot>>

DecoratorNext ==
    \/ NewBasic /\ UNCHANGED <<flyVars, adapterVars, compositeVars>>
    \/ \E cls \in Decorators, r \in 1..Len(classOf) :
          NewDecorator(cls, r) /\ UNCHANGED <<flyVars, adapterVars, compositeVars>>
    \/ \E r \in 1..Len(classOf) :
          ClientCode(r) /\ UNCHANGED <<flyVars, adapterVars, compositeVars>>
    \/ BasicReport /\ UNCHANGED <<flyVars, adapterVars, compositeVars>>
    \/ MQTTSetup /\ UNCHANGED <<flyVars, adapterVars, compositeVars>>
    \/ CallWrapped /\ UNCHANGED <<flyVars, adapterVars, compositeVars>>
    \/ DecoratorReturn /\ UNCHANGED <<flyVars, adapterVars, compositeVars>>
    \/ MQTTTeardownReturn /\ UNCHANGED <<flyVars, adapterVars, compositeVars>>

(***************************************************************************)
(* specifications                                                          *)
(***************************************************************************)

Init ==
    /\ FlyInit
    /\ AdapterInit
    /\ CompositeInit
    /\ DecoratorInit

SpecFlyweight == Init /\ [][FlyNext]_vars

SpecAdapter == Init /\ [][AdapterNext]_vars

SpecComposite == Init /\ [][CompositeNext]_vars

SpecDecorator == Init /\ [][DecoratorNext]_vars

(***************************************************************************)
(* claims                                                                  *)
(***************************************************************************)

\* C1: calling get_flyweight(S) twice returns on the second call the same
\* object as on the first call.
C1_SecondCallSameObject ==
    [][(/\ last.op = "get"
        /\ last'.op = "get"
        /\ ToSet(last'.args[1]) = ToSet(last.args[1]))
       => last'.ret = last.ret]_vars

\* C2: no two entries of the mapping hold the same set of shared-state values.
C2_OneFlyweightPerCombination ==
    \A k1, k2 \in DOMAIN _flyweights :
        k1 # k2 => objects[_flyweights[k1]] # objects[_flyweights[k2]]

\* C3: get_key gives the same key for any two iteration orders of one set.
C3_KeyStableUnderOrdering ==
    [][(/\ last.op = "get"
        /\ last'.op = "get"
        /\ ToSet(last'.args[1]) = ToSet(last.args[1]))
       => last'.key = last.key]_vars

\* C4: a request for an unseen combination raises the number of stored
\* flyweights by exactly one, a request for a seen one leaves it unchanged.
C4_SizeCountsDistinctCombinations ==
    [][last'.op = "get"
       => Cardinality(DOMAIN _flyweights') =
            Cardinality(DOMAIN _flyweights)
            + (IF ToSet(last'.args[1]) \in requested THEN 0 ELSE 1)]_vars

\* C5: keys collide only for identical combinations, so the Flyweight that
\* get_flyweight(S) returns has shared_state S.
C5_ReturnedFlyweightHoldsRequestedState ==
    last.op = "get" => objects[last.ret] = ToSet(last.args[1])

PairwiseDistinct(seeds) ==
    \A i, j \in DOMAIN seeds : i # j => ToSet(seeds[i]) # ToSet(seeds[j])

\* C6: list_flyweights right after seeding a factory with k distinct
\* combinations reports exactly k, for every factory constructed.
C6_SeededCountReported ==
    [][(/\ last.op = "init"
        /\ last'.op = "list"
        /\ last'.factory = last.factory
        /\ PairwiseDistinct(last.args))
       => last'.count = Len(last.args)]_vars

\* C7: the key set only grows and a stored Flyweight is never removed from
\* the mapping.
C7_NoEviction ==
    [][\A k \in DOMAIN _flyweights :
          /\ k \in DOMAIN _flyweights'
          /\ _flyweights'[k] = _flyweights[k]]_vars

\* C8: client_code on an Adaptee raises AttributeError, which the script
\* catches and reports with the expected message; on a Target or an Adapter
\* nothing is raised, request returns a dict and the assertion holds.
C8_AdapteeRaisesOthersReturnDict ==
    /\ aPc # "crashed"
    /\ (aTarget = "Adaptee" /\ aPc # "request") =>
          \/ aPc = "raised" /\ aExc = "AttributeError" /\ aGuarded
          \/ aPc = "main" /\ aOut[Len(aOut)] = ExpectedMessage
    /\ (aTarget \in {"Target", "Adapter"} /\ aPc # "request") =>
          /\ aExc = "none"
          /\ IsDict(aData)
          /\ aPc = "main" => aOut[Len(aOut)] = aData

C8_Witness ==
    /\ aPc = "main"
    /\ aTarget = "Adaptee"
    /\ aOut[Len(aOut)] = ExpectedMessage
    /\ \E i \in DOMAIN aOut : aOut[i] = [TargetRequest EXCEPT !.root = "xml_data"]
    /\ \E i \in DOMAIN aOut : aOut[i] = TargetRequest

\* the children of a component: those of a cluster, none of a leaf
ChildSet(c) ==
    IF c \in Clusters THEN {_children[c][i] : i \in DOMAIN _children[c]} ELSE {}

\* the components reachable from those of S in at least one step
RECURSIVE Below(_, _)
Below(S, n) ==
    LET next == UNION {ChildSet(c) : c \in S}
    IN IF n = 0 THEN {} ELSE next \cup Below(next, n - 1)

Descendants(c) == Below({c}, Cardinality(Components))

\* no component at or below c is reachable from itself
Acyclic(c) == \A d \in {c} \cup Descendants(c) : d \notin Descendants(d)

\* the claim's text of a component: a leaf's own line; a cluster's header line
\* followed by the texts of its children in the order they were added
RECURSIVE Traversal(_, _)
RECURSIVE TraverseAll(_, _)
Traversal(c, op) ==
    IF c \in Leaves THEN <<[name |-> c, kind |-> "node", op |-> op]>>
    ELSE <<[name |-> c, kind |-> "cluster", op |-> op]>> \o TraverseAll(_children[c], op)
TraverseAll(cs, op) ==
    IF cs = <<>> THEN <<>> ELSE Traversal(Head(cs), op) \o TraverseAll(Tail(cs), op)

\* C9 as stated: a call on any structure built with add_node returns, and
\* returns the header followed by the children's results in order.
C9_EveryStructureTraversed ==
    /\ cStatus # "RecursionError"
    /\ cStatus = "returned" => cResult = Traversal(cRoot, cOp)

\* C9 amended: the call returns the header followed by the children's results
\* in the order added, every reachable leaf in it, whenever no cluster at or
\* below the root is reachable from itself; it fails to return (RecursionError)
\* only on a structure where one is.
C9_AcyclicStructureTraversed ==
    /\ cStatus = "returned" =>
          /\ Acyclic(cRoot)
          /\ cResult = Traversal(cRoot, cOp)
          /\ \A l \in ({cRoot} \cup Descendants(cRoot)) \cap Leaves :
                \E i \in DOMAIN cResult : cResult[i] = [name |-> l, kind |-> "node", op |-> cOp]
    /\ cStatus = "RecursionError" => ~Acyclic(cRoot)
    /\ (cStatus = "running" /\ Acyclic(cRoot)) => Len(cStack) < RecursionLimit

C9_Witness ==
    /\ cStatus = "returned"
    /\ cRoot = "A"
    /\ _children["A"] = <<"B", "L">>
    /\ _children["B"] = <<"L", "L">>
    /\ Len(cResult) = 5

\* the object r and everything it wraps, directly or not
RECURSIVE Chain(_)
Chain(r) == IF _reporter[r] = 0 THEN {r} ELSE {r} \cup Chain(_reporter[r])

\* the claim's text of r: the wrapped reporter's text with r's own suffix
\* appended, so the suffixes of stacked decorators come innermost first
RECURSIVE ReportOf(_)
ReportOf(r) ==
    IF _reporter[r] = 0
    THEN <<"I'm reporting basic charging session data to device' shadow">>
    ELSE ReportOf(_reporter[r]) \o
         (CASE classOf[r] = "ShadowReporterDecorator" ->
                  <<" and added meter values to device' shadow">>
            [] classOf[r] = "MQTTReporterDecorator" ->
                  <<" and sent meter values to MQTT topic">>
            [] OTHER -> <<>>)

OnStack(r) == \E i \in DOMAIN dStack : dStack[i].obj = r

\* C10: every MQTTReporterDecorator.report_data runs setup, then the wrapped
\* report_data, then teardown: its _mqtt_client is up while the wrapped
\* reporter runs and down whenever the call has finished, and the text is the
\* wrapped reporter's text with the decorator's suffix appended.
C10_SetupWrappedTeardown ==
    /\ \A i \in DOMAIN dStack :
          LET f == dStack[i]
          IN /\ (classOf[f.obj] = "MQTTReporterDecorator" /\ f.pc # "start")
                   => _mqtt_client[f.obj] = "MQTT Client up"
             /\ f.pc = "resume" => f.got = ReportOf(_reporter[f.obj])
             /\ f.pc = "wait" => i < Len(dStack) /\ dStack[i + 1].obj = _reporter[f.obj]
    /\ \A r \in DOMAIN classOf :
          ~OnStack(r) => _mqtt_client[r] \in {"None", "MQTT Client down"}
    /\ dStatus = "done" =>
          /\ dResult = ReportOf(dRoot)
          /\ \A r \in Chain(dRoot) :
                classOf[r] = "MQTTReporterDecorator"
                   => _mqtt_client[r] = "MQTT Client down"

C10_Witness ==
    /\ dStatus = "done"
    /\ Len(classOf) = 3
    /\ dRoot = 3
    /\ classOf[3] = "MQTTReporterDecorator"
    /\ classOf[2] = "ShadowReporterDecorator"
    /\ _reporter[3] = 2
    /\ _mqtt_client[3] = "MQTT Client down"
    /\ dResult = <<"I'm reporting basic charging session data to device' shadow",
                   " and added meter values to device' shadow",
                   " and sent meter values to MQTT topic">>

\* C11: a Flyweight handed out for a combination S stays the instance for S:
\* whatever happens in between, further factories seeded with S included,
\* every get_flyweight(S) on any factory returns the object handed out before.
C11_HandedOutStaysCanonical ==
    \A h1, h2 \in handed : h1[1] = h2[1] => h1[2] = h2[2]

\* C12: after any add_node and remove_node calls, a component occurs in a
\* cluster's _children exactly when that cluster is its parent, and a
\* component in no child list has no parent (one never given a parent counts
\* as having none).
C12_ParentLinksAgreeWithChildren ==
    /\ \A c \in Components, p \in Clusters :
          Contains(_children[p], c) <=> _parent[c] = p
    /\ \A c \in Components :
          (\A p \in Clusters : ~Contains(_children[p], c))
             => _parent[c] \in {"None", "unset"}

====
